---- MODULE Spec2Model ----
(***************************************************************************)
(* Query-language AST of graphql-parser (src/query/ast.rs, src/lib.rs):    *)
(* the document tree, the BTreeMap behind Value::Object, the lifetime      *)
(* conversion Document::into_static and the serde mapping of the tree.     *)
(*                                                                         *)
(* Serialization is modelled as the sequence of calls the derived and the  *)
(* hand-written Serialize impls make on the serde emitter (Serializer S):  *)
(* one event per call.  The emitter may refuse any call with its own       *)
(* error, which the impls pass on with `?`.                                *)
(***************************************************************************)
EXTENDS Integers, Sequences, FiniteSets, TLC

VARIABLES
    phase,      \* "lexing" | "parsed" | "done": where the caller stands
    lifetime,   \* the lifetime parameter of the Document type: "a" | "static"
    parsed,     \* the tree the parser built (definitions, as a sequence)
    document,   \* the Document value: its bits, a Vec header into heap
    heap,       \* heap buffers: address -> [alive, cells]
    object,     \* a Value::Object under construction (BTreeMap content)
    inserted,   \* the (key, value) pairs inserted into object, in call order
    emitter,    \* the serde emitter's behaviour: [failAt, err, preserve_order]
    outcome,    \* result of serialization: [kind, err]
    output,     \* the emitter calls accepted so far
    written,    \* what those calls describe, in call order, open where cut short
    value       \* the serde_json Value returned (Missing: none was returned)

vars ==
    <<phase, lifetime, parsed, document, heap, object, inserted, emitter, outcome, output,
      written, value>>

----------------------------------------------------------------------------
(* Bounds of the model *)

\* longest Document.definitions the parser builds
MaxDefinitions == 2
\* the emitter refuses at most its MaxFailAt-th call (0: it refuses none)
MaxFailAt == 20
\* insert calls on one Value::Object
MaxInserts == 3

\* Text::Value instances used as names and object keys
Names == {"a", "b"}
\* errors the emitter may return (S::Error)
EmitterErrors == {"io", "custom"}

----------------------------------------------------------------------------
(* Option<T> *)

None == <<>>
Some(x) == <<x>>
IsSome(o) == o # <<>>
Unwrap(o) == o[1]

(* crate::position::Pos *)
Pos(l, c) == [line |-> l, column |-> c]

----------------------------------------------------------------------------
(* Text::Value ordering and Value::Object = BTreeMap<T::Value, Value> *)

\* Ord on the text values used as keys (String: byte-wise lexicographic)
KeyRank(k) == CASE k = "a" -> 1 [] k = "b" -> 2 [] k = "c" -> 3 [] OTHER -> 9

KeysOf(m) == [i \in 1..Len(m) |-> m[i][1]]

\* position at which key k is or would be stored: entries are kept in key order
SlotOf(m, k) == 1 + Cardinality({i \in 1..Len(m) : KeyRank(m[i][1]) < KeyRank(k)})

\* a plausible slip: an insertion-ordered container (Vec::push) instead of BTreeMap
BTreeInsertAppend(m, k, v) == Append(m, <<k, v>>)

\* BTreeMap::insert: replaces the value of an existing key, else adds in key order
BTreeInsert(m, k, v) ==
    LET s == SlotOf(m, k) IN
    IF s <= Len(m) /\ m[s][1] = k
    THEN [m EXCEPT ![s] = <<k, v>>]
    ELSE SubSeq(m, 1, s - 1) \o <<<<k, v>>>> \o SubSeq(m, s, Len(m))

RECURSIVE BTreeFromInserts(_)
BTreeFromInserts(pairs) ==
    IF pairs = <<>> THEN <<>>
    ELSE BTreeInsert(BTreeFromInserts(SubSeq(pairs, 1, Len(pairs) - 1)),
                     pairs[Len(pairs)][1], pairs[Len(pairs)][2])

\* enum Value: the one variant of the source
Object(m) == <<"Object", m>>

----------------------------------------------------------------------------
(* AST nodes (src/query/ast.rs) *)

Operation(op) == <<"Operation", op>>
Fragment(f) == <<"Fragment", f>>

OpSelectionSet(ss) == <<"SelectionSet", ss>>
OpQuery(q) == <<"Query", q>>
OpMutation(m) == <<"Mutation", m>>
OpSubscription(s) == <<"Subscription", s>>

FragmentDefinition(pos, name, tc, dirs, ss) ==
    [position |-> pos, name |-> name, type_condition |-> tc,
     directives |-> dirs, selection_set |-> ss]

\* struct Query, struct Mutation and struct Subscription have the same fields
Query(pos, name, vars_, dirs, ss) ==
    [position |-> pos, name |-> name, variable_definitions |-> vars_,
     directives |-> dirs, selection_set |-> ss]

SelectionSet(span, items) == [span |-> span, items |-> items]

VariableDefinition(pos, name, ty, dv) ==
    [position |-> pos, name |-> name, var_type |-> ty, default_value |-> dv]

SelField(f) == <<"Field", f>>
SelFragmentSpread(f) == <<"FragmentSpread", f>>
SelInlineFragment(f) == <<"InlineFragment", f>>

Field(pos, alias, name, args, dirs, ss) ==
    [position |-> pos, alias |-> alias, name |-> name, arguments |-> args,
     directives |-> dirs, selection_set |-> ss]

FragmentSpread(pos, name, dirs) ==
    [position |-> pos, fragment_name |-> name, directives |-> dirs]

On(n) == <<"On", n>>

InlineFragment(pos, tc, dirs, ss) ==
    [position |-> pos, type_condition |-> tc, directives |-> dirs, selection_set |-> ss]

Directive(args) == [arguments |-> args]

----------------------------------------------------------------------------
(* serde rename rules.  Rust identifiers are kept as their words, so that  *)
(* a rename is computed and not looked up.                                 *)

Capitalize(w) ==
    CASE w = "set" -> "Set" [] w = "condition" -> "Condition"
      [] w = "definitions" -> "Definitions" [] w = "type" -> "Type"
      [] w = "value" -> "Value" [] w = "name" -> "Name" [] OTHER -> w

Uncapitalize(w) ==
    CASE w = "Selection" -> "selection" [] w = "Query" -> "query"
      [] w = "Mutation" -> "mutation" [] w = "Subscription" -> "subscription"
      [] OTHER -> w

RECURSIVE JoinWords(_, _)
JoinWords(ws, sep) ==
    IF ws = <<>> THEN ""
    ELSE IF Len(ws) = 1 THEN ws[1]
    ELSE ws[1] \o sep \o JoinWords(Tail(ws), sep)

\* the identifier as written in the source: words joined by "_"
SnakeCase(ws) == JoinWords(ws, "_")

\* a plausible slip: rename_all left out, the field keeps its Rust name
RenameFieldNone(ws) == SnakeCase(ws)

\* rename_all = "camelCase" on a struct field
RenameField(ws) ==
    JoinWords(<<ws[1]>> \o [i \in 1..(Len(ws) - 1) |-> Capitalize(ws[i + 1])], "")

\* rename_all = "camelCase" on an enum variant: first letter lowered
RenameVariant(ws) == JoinWords(<<Uncapitalize(ws[1])>> \o Tail(ws), "")

----------------------------------------------------------------------------
(* Emitter calls *)

StructBegin(name, n) == [op |-> "struct", s |-> name, n |-> n]
MapBegin(n) == [op |-> "map", s |-> "", n |-> n]
SeqBegin(n) == [op |-> "seq", s |-> "", n |-> n]
Key(k) == [op |-> "key", s |-> k, n |-> 0]
Str(x) == [op |-> "str", s |-> x, n |-> 0]
NoneEv == [op |-> "none", s |-> "", n |-> 0]
End == [op |-> "end", s |-> "", n |-> 0]
\* not an emitter call: the point where the mapper itself aborts
Unimplemented == [op |-> "unimplemented", s |-> "", n |-> 0]

RECURSIVE Concat(_)
Concat(ss) == IF ss = <<>> THEN <<>> ELSE ss[1] \o Concat(Tail(ss))

\* serialize_field(key, value) for each field, in declaration order
FieldEvents(fields) == Concat([i \in 1..Len(fields) |-> <<Key(fields[i][1])>> \o fields[i][2]])

\* a derived struct impl; under serde's TaggedSerializer (an internally tagged
\* enum around it) the struct is opened with len + 1 and the tag goes first
SerializeStruct(name, tags, fields) ==
    <<StructBegin(name, Len(fields) + Len(tags))>>
    \o FieldEvents([i \in 1..Len(tags) |-> <<tags[i][1], <<Str(tags[i][2])>>>>])
    \o FieldEvents(fields) \o <<End>>

\* Vec<T>: serialize_seq, one serialize_element per item in order, end
SerializeVec(elems) == <<SeqBegin(Len(elems))>> \o Concat(elems) \o <<End>>

----------------------------------------------------------------------------
(* crate::common, as far as src/ holds it *)

\* NameKind { value }: the wrapped Name node
NameKind(text) ==
    SerializeStruct("Name", <<<<"kind", "Name">>>>, <<<<"value", <<Str(text)>>>>>>)

serialize_name(name) == NameKind(name)

serialize_optional_name(name) ==
    IF IsSome(name) THEN serialize_name(Unwrap(name)) ELSE <<NoneEv>>

\* pub fn serialize_arguments: the body is unimplemented!()
serialize_arguments(args) == <<Unimplemented>>

\* struct Directive { arguments }
SerializeDirective(d) ==
    SerializeStruct("Directive", <<>>, <<<<"arguments", serialize_arguments(d.arguments)>>>>)

SerializeDirectives(ds) == SerializeVec([i \in 1..Len(ds) |-> SerializeDirective(ds[i])])

\* Value::Object: the map's entries in BTreeMap iteration order
RECURSIVE SerializeValue(_)
SerializeValue(v) ==
    LET m == v[2] IN
    <<MapBegin(Len(m))>>
    \o Concat([i \in 1..Len(m) |-> <<Key(m[i][1])>> \o SerializeValue(m[i][2])])
    \o <<End>>

\* Type: a named type, emitted as its name
SerializeType(t) == <<Str(t)>>

\* Option<T>: serialize_none, or the value itself
SerializeOption(o, events) == IF IsSome(o) THEN events ELSE <<NoneEv>>

----------------------------------------------------------------------------
(* Serialize impls of src/query/ast.rs *)

\* a plausible slip: the entries written in the other order
TypeConditionSerializeSwapped(tc) ==
    <<MapBegin(2), Key("value")>> \o NameKind(tc[2]) \o <<Key("kind"), Str("NamedType"), End>>

\* impl Serialize for TypeCondition
TypeConditionSerialize(tc) ==
    <<MapBegin(2), Key("kind"), Str("NamedType"), Key("value")>> \o NameKind(tc[2]) \o <<End>>

RECURSIVE SerializeSelectionSet(_, _)
RECURSIVE SerializeSelection(_)

\* struct Field
SerializeField(f, tags) ==
    SerializeStruct("Field", tags,
        << <<RenameField(<<"alias">>), serialize_optional_name(f.alias)>>,
           <<RenameField(<<"name">>), serialize_name(f.name)>>,
           <<RenameField(<<"arguments">>), serialize_arguments(f.arguments)>>,
           <<RenameField(<<"directives">>), SerializeDirectives(f.directives)>>,
           <<RenameField(<<"selection", "set">>), SerializeSelectionSet(f.selection_set, <<>>)>> >>)

\* struct FragmentSpread
SerializeFragmentSpread(f, tags) ==
    SerializeStruct("FragmentSpread", tags,
        << <<RenameField(<<"fragment", "name">>), serialize_name(f.fragment_name)>>,
           <<RenameField(<<"directives">>), SerializeDirectives(f.directives)>> >>)

\* a plausible slip: skip_serializing_if put on the optional type condition
SerializeInlineFragmentSkipNone(f, tags) ==
    SerializeStruct("InlineFragment", tags,
        (IF IsSome(f.type_condition)
         THEN << <<RenameField(<<"type", "condition">>), TypeConditionSerialize(Unwrap(f.type_condition))>> >>
         ELSE <<>>)
        \o << <<RenameField(<<"directives">>), SerializeDirectives(f.directives)>>,
              <<RenameField(<<"selection", "set">>), SerializeSelectionSet(f.selection_set, <<>>)>> >>)

\* struct InlineFragment
SerializeInlineFragment(f, tags) ==
    SerializeStruct("InlineFragment", tags,
        << <<RenameField(<<"type", "condition">>),
             SerializeOption(f.type_condition,
                 IF IsSome(f.type_condition)
                 THEN TypeConditionSerialize(Unwrap(f.type_condition)) ELSE <<>>)>>,
           <<RenameField(<<"directives">>), SerializeDirectives(f.directives)>>,
           <<RenameField(<<"selection", "set">>), SerializeSelectionSet(f.selection_set, <<>>)>> >>)

\* a plausible slip: the variant name lost, every selection tagged alike
SelectionTagConstant(variant) == <<<<"kind", "Selection">>>>

\* enum Selection, serde(tag = "kind"): variants keep their names
SelectionTag(variant) == <<<<"kind", variant>>>>

SerializeSelection(sel) ==
    CASE sel[1] = "Field" -> SerializeField(sel[2], SelectionTag(sel[1]))
      [] sel[1] = "FragmentSpread" -> SerializeFragmentSpread(sel[2], SelectionTag(sel[1]))
      [] sel[1] = "InlineFragment" -> SerializeInlineFragment(sel[2], SelectionTag(sel[1]))

\* a plausible slip: serde(skip) left off the span
SerializeSelectionSetWithSpan(ss, tags) ==
    SerializeStruct("SelectionSet", tags,
        << <<RenameField(<<"span">>), <<NoneEv>>>>,
           <<"selections",
             SerializeVec([i \in 1..Len(ss.items) |-> SerializeSelection(ss.items[i])])>> >>)

\* struct SelectionSet: span skipped, items renamed "selections"
SerializeSelectionSet(ss, tags) ==
    SerializeStruct("SelectionSet", tags,
        << <<"selections",
             SerializeVec([i \in 1..Len(ss.items) |-> SerializeSelection(ss.items[i])])>> >>)

\* struct VariableDefinition
SerializeVariableDefinition(v) ==
    SerializeStruct("VariableDefinition", <<>>,
        << <<RenameField(<<"name">>), serialize_name(v.name)>>,
           <<RenameField(<<"var", "type">>), SerializeType(v.var_type)>>,
           <<RenameField(<<"default", "value">>),
             SerializeOption(v.default_value,
                 IF IsSome(v.default_value)
                 THEN SerializeValue(Unwrap(v.default_value)) ELSE <<>>)>> >>)

\* struct Query / Mutation / Subscription (name: the struct's name)
SerializeQuery(name, q, tags) ==
    SerializeStruct(name, tags,
        << <<RenameField(<<"name">>), serialize_optional_name(q.name)>>,
           <<RenameField(<<"variable", "definitions">>),
             SerializeVec([i \in 1..Len(q.variable_definitions) |->
                              SerializeVariableDefinition(q.variable_definitions[i])])>>,
           <<RenameField(<<"directives">>), SerializeDirectives(q.directives)>>,
           <<RenameField(<<"selection", "set">>), SerializeSelectionSet(q.selection_set, <<>>)>> >>)

\* struct FragmentDefinition
SerializeFragmentDefinition(f, tags) ==
    SerializeStruct("FragmentDefinition", tags,
        << <<RenameField(<<"name">>), serialize_name(f.name)>>,
           <<RenameField(<<"type", "condition">>), TypeConditionSerialize(f.type_condition)>>,
           <<RenameField(<<"directives">>), SerializeDirectives(f.directives)>>,
           <<RenameField(<<"selection", "set">>), SerializeSelectionSet(f.selection_set, <<>>)>> >>)

\* the words of an OperationDefinition variant's identifier
VariantWords(variant) ==
    IF variant = "SelectionSet" THEN <<"Selection", "Set">> ELSE <<variant>>

\* enum OperationDefinition, serde(tag = "operation", rename_all = "camelCase")
SerializeOperationDefinition(op, tags) ==
    LET inner == tags \o <<<<"operation", RenameVariant(VariantWords(op[1]))>>>> IN
    IF op[1] = "SelectionSet" THEN SerializeSelectionSet(op[2], inner)
    ELSE SerializeQuery(op[1], op[2], inner)

\* enum Definition, serde(tag = "kind"), variants renamed
SerializeDefinition(d) ==
    IF d[1] = "Operation"
    THEN SerializeOperationDefinition(d[2], <<<<"kind", "OperationDefinition">>>>)
    ELSE SerializeFragmentDefinition(d[2], <<<<"kind", "FragmentDefinition">>>>)

\* struct Document (definitions: the Vec's items)
SerializeDocument(definitions) ==
    SerializeStruct("Document", <<>>,
        << <<"definitions",
             SerializeVec([i \in 1..Len(definitions) |-> SerializeDefinition(definitions[i])])>> >>)

----------------------------------------------------------------------------
(* The emitter (serde Serializer) and the run of a Serialize impl on it *)

\* serde_json's value builder (to_value): it refuses no call.  Its Map is a
\* BTreeMap unless serde_json is built with the feature preserve_order
ToValueEmitter(po) == [failAt |-> 0, err |-> "", preserve_order |-> po]
NeverFails == {ToValueEmitter(po) : po \in BOOLEAN}
\* any other Serializer: it may refuse its failAt-th call with its own error
Emitters == NeverFails \cup [failAt : 1..MaxFailAt, err : EmitterErrors, preserve_order : {FALSE}]

\* index of the first point where the mapper aborts, 0 if none
FirstAbort(events) ==
    LET hits == {i \in 1..Len(events) : events[i].op = "unimplemented"} IN
    IF hits = {} THEN 0 ELSE CHOOSE i \in hits : \A j \in hits : i <= j

\* the calls are made in order; each is followed by `?`, so the first refused
\* call ends the run with the emitter's error; unimplemented!() panics
Run(events, em) ==
    LET p == FirstAbort(events)
        calls == IF p = 0 THEN Len(events) ELSE p - 1 IN
    IF em.failAt # 0 /\ em.failAt <= calls
    THEN [kind |-> "err", err |-> em.err, out |-> SubSeq(events, 1, em.failAt - 1)]
    ELSE IF p # 0
    THEN [kind |-> "panic", err |-> "not implemented", out |-> SubSeq(events, 1, p - 1)]
    ELSE [kind |-> "ok", err |-> "", out |-> events]

----------------------------------------------------------------------------
(* What the emitter has received: the compound values the accepted calls   *)
(* describe, entries in call order (the text a writing emitter has put     *)
(* out).  A compound the calls have not ended is open, except one opened   *)
(* with length 0, which is written whole at once; a key received without   *)
(* its value holds Missing.                                                *)

JNull == <<"null", "">>
JStr(x) == <<"str", x>>
JObj(entries) == <<"obj", entries>>
JArr(items) == <<"arr", items>>
Missing == <<"missing", "">>

Closed(t, members) == IF t = "obj" THEN JObj(members) ELSE JArr(members)
\* a compound whose end() has not been called
Open(t, members) == IF t = "obj" THEN <<"obj_open", members>> ELSE <<"arr_open", members>>

RECURSIVE ParseValue(_, _)
RECURSIVE ParseMembers(_, _, _, _)

\* the members of the compound opened before call i
ParseMembers(events, i, t, acc) ==
    IF i > Len(events) THEN [ok |-> TRUE, v |-> Open(t, acc), next |-> i]
    ELSE IF events[i].op = "end" THEN [ok |-> TRUE, v |-> Closed(t, acc), next |-> i + 1]
    ELSE LET r == ParseValue(events, IF t = "obj" THEN i + 1 ELSE i) IN
         IF ~r.ok
         THEN [ok |-> TRUE,
               v |-> Open(t, IF t = "obj" THEN Append(acc, <<events[i].s, Missing>>) ELSE acc),
               next |-> Len(events) + 1]
         ELSE ParseMembers(events, r.next, t,
                  Append(acc, IF t = "obj" THEN <<events[i].s, r.v>> ELSE r.v))

\* the value whose first call is call i
ParseValue(events, i) ==
    IF i > Len(events) THEN [ok |-> FALSE, v |-> Missing, next |-> i]
    ELSE CASE events[i].op = "str" -> [ok |-> TRUE, v |-> JStr(events[i].s), next |-> i + 1]
           [] events[i].op = "none" -> [ok |-> TRUE, v |-> JNull, next |-> i + 1]
           [] events[i].op \in {"struct", "map", "seq"} ->
                LET t == IF events[i].op = "seq" THEN "arr" ELSE "obj" IN
                IF events[i].n = 0 /\ i = Len(events)
                THEN [ok |-> TRUE, v |-> Closed(t, <<>>), next |-> i + 1]
                ELSE ParseMembers(events, i + 1, t, <<>>)
           [] OTHER -> [ok |-> FALSE, v |-> Missing, next |-> i]

\* what the calls describe
WrittenBy(events) == ParseValue(events, 1).v

----------------------------------------------------------------------------
(* serde_json::to_value: the Value built from a run that ended ok.  An     *)
(* object is a Map<String, Value>: a BTreeMap (keys in String order), or   *)
(* an IndexMap (keys as inserted) under the feature preserve_order.        *)

\* the keys that can be written, in String order (byte-wise: 'A'..'Z' < '_' < 'a'..'z')
StringOrder ==
    <<"a", "alias", "arguments", "b", "c", "defaultValue", "default_value", "definitions",
      "directives", "fragmentName", "fragment_name", "items", "kind", "name", "operation",
      "position", "selectionSet", "selection_set", "selections", "span", "type",
      "typeCondition", "type_condition", "value", "varType", "var_type",
      "variableDefinitions", "variable_definitions">>

StringRank(k) ==
    IF \E i \in 1..Len(StringOrder) : StringOrder[i] = k
    THEN CHOOSE i \in 1..Len(StringOrder) : StringOrder[i] = k
    ELSE Len(StringOrder) + 1

\* Map::insert: the value of a key already there is replaced in place; a new
\* key goes to its place in key order, or to the end under preserve_order
MapInsert(m, k, v, po) ==
    IF \E i \in 1..Len(m) : m[i][1] = k
    THEN [i \in 1..Len(m) |-> IF m[i][1] = k THEN <<k, v>> ELSE m[i]]
    ELSE IF po THEN Append(m, <<k, v>>)
    ELSE LET s == 1 + Cardinality({i \in 1..Len(m) : StringRank(m[i][1]) < StringRank(k)}) IN
         SubSeq(m, 1, s - 1) \o <<<<k, v>>>> \o SubSeq(m, s, Len(m))

RECURSIVE to_value(_, _)
RECURSIVE MapOf(_, _, _)

\* the Map holding the first n entries received
MapOf(entries, n, po) ==
    IF n = 0 THEN <<>>
    ELSE MapInsert(MapOf(entries, n - 1, po), entries[n][1], to_value(entries[n][2], po), po)

to_value(j, po) ==
    CASE j[1] = "obj" -> JObj(MapOf(j[2], Len(j[2]), po))
      [] j[1] = "arr" -> JArr([i \in 1..Len(j[2]) |-> to_value(j[2][i], po)])
      [] OTHER -> j

IsObj(j) == j[1] \in {"obj", "obj_open"}
IsArr(j) == j[1] \in {"arr", "arr_open"}
Entries(j) == IF IsObj(j) THEN j[2] ELSE <<>>
Items(j) == IF IsArr(j) THEN j[2] ELSE <<>>
Keys(j) == [i \in 1..Len(Entries(j)) |-> Entries(j)[i][1]]
KeySet(j) == {Entries(j)[i][1] : i \in 1..Len(Entries(j))}
HasKey(j, k) == k \in KeySet(j)
Get(j, k) ==
    IF HasKey(j, k)
    THEN Entries(j)[CHOOSE i \in 1..Len(Entries(j)) : Entries(j)[i][1] = k][2]
    ELSE Missing
Item(j, i) == IF i \in 1..Len(Items(j)) THEN Items(j)[i] ELSE Missing

----------------------------------------------------------------------------
(* Document in memory: the struct is one Vec (ptr, cap, len); the items    *)
(* live in a heap buffer the Vec owns.                                     *)

Bits(d) == <<d.definitions.ptr, d.definitions.cap, d.definitions.len>>
FromBits(b) == [definitions |-> [ptr |-> b[1], cap |-> b[2], len |-> b[3]]]

\* the definitions a Document value denotes
View(d, h) ==
    IF d.definitions.ptr \in DOMAIN h /\ h[d.definitions.ptr].alive
    THEN SubSeq(h[d.definitions.ptr].cells, 1, d.definitions.len)
    ELSE <<>>

\* drop of a Document: the Vec frees the buffer it owns (none when cap = 0)
Drop(d, h) ==
    IF d.definitions.cap = 0 THEN h
    ELSE [h EXCEPT ![d.definitions.ptr] = [alive |-> FALSE, cells |-> <<>>]]

\* a plausible slip: self dropped on the way (its buffer freed), bits kept
into_static_dropping(d, h) == [document |-> FromBits(Bits(d)), heap |-> Drop(d, h)]

\* Document::into_static: mem::transmute moves self's bits into the result
\* and runs no destructor; nothing on the heap is touched
into_static(d, h) == [document |-> FromBits(Bits(d)), heap |-> h]

\* Vec<Definition> holding defs, in a fresh buffer at address 1; an empty
\* Vec owns no buffer (its pointer, 0 here, dangles)
Allocated(defs) ==
    IF defs = <<>>
    THEN [document |-> [definitions |-> [ptr |-> 0, cap |-> 0, len |-> 0]],
          heap |-> [a \in {} |-> [alive |-> FALSE, cells |-> <<>>]]]
    ELSE [document |-> [definitions |-> [ptr |-> 1, cap |-> Len(defs), len |-> Len(defs)]],
          heap |-> [a \in {1} |-> [alive |-> TRUE, cells |-> defs]]]

----------------------------------------------------------------------------
(* Trees the parser hands over *)

P1 == Pos(1, 1)
P2 == Pos(2, 5)

V0 == Object(<<>>)
V1 == Object(BTreeFromInserts(<<<<"b", V0>>, <<"a", V0>>>>))

EmptySet == SelectionSet(<<P1, P1>>, <<>>)

SpreadSet == SelectionSet(<<P1, P2>>, <<SelFragmentSpread(FragmentSpread(P2, "b", <<>>))>>)

\* a spread, an inline fragment without and one with a type condition, nested
NestedSet ==
    SelectionSet(<<P1, P2>>,
        << SelFragmentSpread(FragmentSpread(P1, "a", <<>>)),
           SelInlineFragment(InlineFragment(P2, None, <<>>, EmptySet)),
           SelInlineFragment(InlineFragment(P2, Some(On("b")), <<>>, SpreadSet)) >>)

VarDefs ==
    << VariableDefinition(P1, "a", "T", None),
       VariableDefinition(P2, "b", "U", Some(V1)) >>

\* argument lists: out of key order, and with a key twice
ArgsBA == << <<"b", V0>>, <<"a", V1>> >>
ArgsAA == << <<"a", V1>>, <<"a", V0>> >>

OptionalNames == {None, Some("a")}

NamedOperations ==
    {Operation(OpQuery(Query(P1, n, VarDefs, <<>>, NestedSet))) : n \in OptionalNames}
    \cup {Operation(OpMutation(Query(P2, None, <<>>, <<>>, SpreadSet))),
          Operation(OpSubscription(Query(P1, Some("b"), <<>>, <<>>, EmptySet)))}

AnonymousOperations == {Operation(OpSelectionSet(SpreadSet))}

Fragments == {Fragment(FragmentDefinition(P2, "a", On("b"), <<>>, NestedSet))}

\* trees with a Field or a Directive: these reach serialize_arguments
WithArguments ==
    { Operation(OpSelectionSet(SelectionSet(<<P1, P2>>,
          <<SelField(Field(P1, None, "a", ArgsBA, <<>>, EmptySet))>>))),
      Operation(OpSelectionSet(SelectionSet(<<P1, P2>>,
          << SelInlineFragment(InlineFragment(P1, None, <<>>, EmptySet)),
             SelField(Field(P2, Some("b"), "a", ArgsAA, <<>>, SpreadSet)) >>))),
      Operation(OpQuery(Query(P1, None, <<>>, <<Directive(ArgsBA)>>, EmptySet))) }

Definitions == NamedOperations \cup AnonymousOperations \cup Fragments \cup WithArguments

Documents == UNION {[1..n -> Definitions] : n \in 0..MaxDefinitions}

----------------------------------------------------------------------------
(* State machine *)

NoOutcome == [kind |-> "none", err |-> ""]

\* the parser has built a Document of borrowed-lifetime type
Init ==
    /\ phase = "parsed"
    /\ lifetime = "a"
    /\ parsed \in Documents
    /\ document = Allocated(parsed).document
    /\ heap = Allocated(parsed).heap
    /\ object = <<>>
    /\ inserted = <<>>
    /\ emitter = ToValueEmitter(FALSE)
    /\ outcome = NoOutcome
    /\ output = <<>>
    /\ written = Missing
    /\ value = Missing

\* Document::into_static
IntoStatic ==
    /\ phase = "parsed"
    /\ lifetime = "a"
    /\ document' = into_static(document, heap).document
    /\ heap' = into_static(document, heap).heap
    /\ lifetime' = "static"
    /\ UNCHANGED <<phase, parsed, object, inserted, emitter, outcome, output, written, value>>

\* serde_json::to_value(document), or document.serialize(S) on another
\* emitter.  A Value is returned only when the run ends ok.  to_value takes
\* the Document by value: it is dropped when the call ends or panics; any
\* other emitter is run on a borrow, which leaves the Document as it is
Serialize ==
    /\ phase = "parsed"
    /\ LET calls == SerializeDocument(View(document, heap)) IN
       \E em \in Emitters :
         LET r == Run(calls, em) IN
         /\ emitter' = em
         /\ outcome' = [kind |-> r.kind, err |-> r.err]
         /\ output' = r.out
         /\ written' = WrittenBy(r.out)
         /\ value' = IF r.kind = "ok"
                      THEN to_value(WrittenBy(r.out), em.preserve_order)
                      ELSE Missing
         /\ heap' = IF em \in NeverFails THEN Drop(document, heap) ELSE heap
    /\ phase' = "done"
    /\ UNCHANGED <<lifetime, parsed, document, object, inserted>>

Next == IntoStatic \/ Serialize

Spec == Init /\ [][Next]_vars

----------------------------------------------------------------------------
(* Building a Value::Object entry by entry, then serializing it as the     *)
(* default value of a variable.                                            *)

ObjectKeys == {"a", "b", "c"}
ObjectValues == {V0, Object(<<<<"a", V0>>>>)}

InitObject ==
    /\ phase = "lexing"
    /\ lifetime = "a"
    /\ parsed = <<>>
    /\ document = Allocated(<<>>).document
    /\ heap = Allocated(<<>>).heap
    /\ object = <<>>
    /\ inserted = <<>>
    /\ emitter = ToValueEmitter(FALSE)
    /\ outcome = NoOutcome
    /\ output = <<>>
    /\ written = Missing
    /\ value = Missing

\* map.insert(k, v)
Insert ==
    /\ phase = "lexing"
    /\ Len(inserted) < MaxInserts
    /\ \E k \in ObjectKeys, v \in ObjectValues :
         /\ object' = BTreeInsert(object, k, v)
         /\ inserted' = Append(inserted, <<k, v>>)
    /\ UNCHANGED <<phase, lifetime, parsed, document, heap, emitter, outcome, output, written,
                   value>>

\* the object becomes the default value of the one variable of a query
DocumentWithDefault(m) ==
    << Operation(OpQuery(Query(P1, None,
           <<VariableDefinition(P1, "a", "T", Some(Object(m)))>>, <<>>, EmptySet))) >>

FinishParse ==
    /\ phase = "lexing"
    /\ parsed' = DocumentWithDefault(object)
    /\ document' = Allocated(parsed').document
    /\ heap' = Allocated(parsed').heap
    /\ phase' = "parsed"
    /\ UNCHANGED <<lifetime, object, inserted, emitter, outcome, output, written, value>>

NextObject == Insert \/ FinishParse \/ Serialize

SpecObject == InitObject /\ [][NextObject]_vars

----------------------------------------------------------------------------
(* Reading the output against the tree: every node of the tree with the    *)
(* place of its object in what was written and in the Value returned.      *)

K(k) == [k |-> k, i |-> 0]
I(i) == [k |-> "", i |-> i]

RECURSIVE At(_, _)
At(j, path) ==
    IF path = <<>> THEN j
    ELSE At(IF path[1].i = 0 THEN Get(j, path[1].k) ELSE Item(j, path[1].i), Tail(path))

DirectiveNodes(ds, path) ==
    {<<"Directive", path \o <<K("directives"), I(i)>>, ds[i]>> : i \in 1..Len(ds)}

RECURSIVE SelectionSetNodes(_, _)

SelectionNodes(sel, path) ==
    {<<sel[1], path, sel[2]>>}
    \cup DirectiveNodes(sel[2].directives, path)
    \cup (IF sel[1] \in {"Field", "InlineFragment"}
          THEN SelectionSetNodes(sel[2].selection_set, path \o <<K("selectionSet")>>)
          ELSE {})
    \cup (IF sel[1] = "InlineFragment" /\ IsSome(sel[2].type_condition)
          THEN {<<"TypeCondition", path \o <<K("typeCondition")>>, Unwrap(sel[2].type_condition)>>}
          ELSE {})

SelectionSetNodes(ss, path) ==
    {<<"SelectionSet", path, ss>>}
    \cup UNION {SelectionNodes(ss.items[i], path \o <<K("selections"), I(i)>>) :
                   i \in 1..Len(ss.items)}

DefinitionNodes(d, path) ==
    {<<"Definition", path, d>>}
    \cup IF d[1] = "Fragment"
         THEN {<<"FragmentDefinition", path, d[2]>>,
               <<"TypeCondition", path \o <<K("typeCondition")>>, d[2].type_condition>>}
              \cup DirectiveNodes(d[2].directives, path)
              \cup SelectionSetNodes(d[2].selection_set, path \o <<K("selectionSet")>>)
         ELSE IF d[2][1] = "SelectionSet"
         THEN SelectionSetNodes(d[2][2], path)
         ELSE {<<d[2][1], path, d[2][2]>>}
              \cup {<<"VariableDefinition", path \o <<K("variableDefinitions"), I(i)>>,
                      d[2][2].variable_definitions[i]>> :
                       i \in 1..Len(d[2][2].variable_definitions)}
              \cup DirectiveNodes(d[2][2].directives, path)
              \cup SelectionSetNodes(d[2][2].selection_set, path \o <<K("selectionSet")>>)

Nodes(defs) == UNION {DefinitionNodes(defs[i], <<K("definitions"), I(i)>>) : i \in 1..Len(defs)}

NodesOf(defs, types) == {n \in Nodes(defs) : n[1] \in types}

\* the object of node n: as the emitter received it, as the Value holds it
\* (Missing where there is none), and both
WrittenOf(n) == At(written, n[2])
ValueOf(n) == At(value, n[2])
ObjectsOf(n) == {WrittenOf(n), ValueOf(n)}

NameJson(t) == JObj(<< <<"kind", JStr("Name")>>, <<"value", JStr(t)>> >>)

Done == phase = "done"
Succeeded == phase = "done" /\ outcome.kind = "ok"

----------------------------------------------------------------------------
(* Claims *)

\* the optional Name-typed field of a node and the key it is written under
OptionalNameOf(n) == IF n[1] = "Field" THEN n[3].alias ELSE n[3].name
OptionalNameKey(n) == IF n[1] = "Field" THEN "alias" ELSE "name"
WithOptionalName == {"Field", "Query", "Mutation", "Subscription"}

\* C1: after a successful serialization, a node whose optional Name field
\* (Field.alias; name of Query, Mutation, Subscription) is None has no key
\* for it, and one whose field is Some(t) has the key with the Name object of
\* t, in what was written and in the Value returned.
C1_OptionalNameOmitted ==
    Succeeded =>
        \A n \in NodesOf(parsed, WithOptionalName) : \A o \in ObjectsOf(n) :
            IF IsSome(OptionalNameOf(n))
            THEN Get(o, OptionalNameKey(n)) = NameJson(Unwrap(OptionalNameOf(n)))
            ELSE ~HasKey(o, OptionalNameKey(n))

\* the argument entry the spec describes: {name: <Name object>, value: <value>}
ArgumentJson(arg) ==
    JObj(<< <<"name", NameJson(arg[1])>>, <<"value", WrittenBy(SerializeValue(arg[2]))>> >>)

\* C2: when the emitter refuses no call, the "arguments" written for every
\* Field and Directive is a sequence with one entry per declared argument,
\* the i-th carrying the i-th name and value: no reordering, no merging.
C2_ArgumentsInDeclaredOrder ==
    (Done /\ emitter \in NeverFails) =>
        \A n \in NodesOf(parsed, {"Field", "Directive"}) :
            Get(WrittenOf(n), "arguments") =
                JArr([i \in 1..Len(n[3].arguments) |-> ArgumentJson(n[3].arguments[i])])

PositionedNodes ==
    {"FragmentDefinition", "Query", "Mutation", "Subscription", "VariableDefinition",
     "Field", "FragmentSpread", "InlineFragment"}

\* C3: whatever has been written or returned, at every depth, the object of
\* a node that carries a position has no "position" key and the object of a
\* SelectionSet has no "span" key.
C3_NoPositionData ==
    /\ \A n \in NodesOf(parsed, PositionedNodes) :
          \A o \in ObjectsOf(n) : ~HasKey(o, "position")
    /\ \A n \in NodesOf(parsed, {"SelectionSet"}) :
          \A o \in ObjectsOf(n) : ~HasKey(o, "span")

C3_Witness ==
    /\ Succeeded
    /\ \E n \in NodesOf(parsed, {"InlineFragment"}) :
          n[3].position = P2 /\ HasKey(ValueOf(n), "selectionSet")
    /\ \E n \in NodesOf(parsed, {"SelectionSet"}) :
          n[3].span = <<P1, P2>> /\ Len(Items(Get(ValueOf(n), "selections"))) = 3
    /\ \E n \in NodesOf(parsed, {"VariableDefinition"}) : HasKey(ValueOf(n), "name")
    /\ \E n \in NodesOf(parsed, {"FragmentDefinition"}) : HasKey(WrittenOf(n), "name")

\* the discriminants the claim names
ExpectedKind(n) ==
    IF n[1] = "Definition"
    THEN (IF n[3][1] = "Operation" THEN "OperationDefinition" ELSE "FragmentDefinition")
    ELSE n[1]
ExpectedOperation(n) ==
    CASE n[1] = "Query" -> "query" [] n[1] = "Mutation" -> "mutation"
      [] n[1] = "Subscription" -> "subscription"

\* C4: the object of every Definition and every Selection carries "kind"
\* with the variant's fixed string, and the object of a named operation
\* carries "operation" next to the Definition's "kind", in the same object.
\* The emitter receives them first, so whatever has been written of such an
\* object starts with them (the last key received may still lack its value);
\* the Value returned holds them under their keys.
C4_Discriminants ==
    /\ \A n \in NodesOf(parsed, {"Definition", "Field", "FragmentSpread", "InlineFragment"}) :
          /\ Entries(WrittenOf(n)) # <<>> =>
                /\ Keys(WrittenOf(n))[1] = "kind"
                /\ Get(WrittenOf(n), "kind") \in {JStr(ExpectedKind(n)), Missing}
          /\ Len(Entries(WrittenOf(n))) >= 2 =>
                Get(WrittenOf(n), "kind") = JStr(ExpectedKind(n))
          /\ Succeeded => Get(ValueOf(n), "kind") = JStr(ExpectedKind(n))
    /\ \A n \in NodesOf(parsed, {"Query", "Mutation", "Subscription"}) :
          /\ Len(Entries(WrittenOf(n))) >= 2 =>
                /\ Entries(WrittenOf(n))[1] = <<"kind", JStr("OperationDefinition")>>
                /\ Keys(WrittenOf(n))[2] = "operation"
                /\ Get(WrittenOf(n), "operation") \in {JStr(ExpectedOperation(n)), Missing}
          /\ Len(Entries(WrittenOf(n))) >= 3 =>
                Get(WrittenOf(n), "operation") = JStr(ExpectedOperation(n))
          /\ Succeeded =>
                /\ Get(ValueOf(n), "kind") = JStr("OperationDefinition")
                /\ Get(ValueOf(n), "operation") = JStr(ExpectedOperation(n))

C4_Witness ==
    /\ Done
    /\ \E n \in NodesOf(parsed, {"Field"}) : Get(WrittenOf(n), "kind") = JStr("Field")
    /\ \E n \in NodesOf(parsed, {"InlineFragment"}) :
          Get(WrittenOf(n), "kind") = JStr("InlineFragment")
    /\ \E n \in NodesOf(parsed, {"FragmentSpread"}) :
          Get(WrittenOf(n), "kind") = JStr("FragmentSpread")
    /\ \E n \in NodesOf(parsed, {"Mutation"}) :
          /\ Get(WrittenOf(n), "kind") = JStr("OperationDefinition")
          /\ Get(WrittenOf(n), "operation") = JStr("mutation")

\* the Rust names of the fields, as written in the source
SnakeKeys ==
    {SnakeCase(ws) : ws \in {<<"selection", "set">>, <<"type", "condition">>,
                             <<"var", "type">>, <<"default", "value">>,
                             <<"variable", "definitions">>, <<"fragment", "name">>}}
    \cup {"items"}

WithSelectionSet == {"Query", "Mutation", "Subscription", "FragmentDefinition", "InlineFragment"}

\* C5 as claimed: camelCase keys, items under "selections", and var_type
\* under "type".
C5_CamelCaseKeysTypeKey ==
    Succeeded =>
        /\ \A n \in Nodes(parsed) : \A o \in ObjectsOf(n) : KeySet(o) \cap SnakeKeys = {}
        /\ \A n \in NodesOf(parsed, WithSelectionSet) :
              \A o \in ObjectsOf(n) : HasKey(o, "selectionSet")
        /\ \A n \in NodesOf(parsed, {"SelectionSet"}) :
              \A o \in ObjectsOf(n) : HasKey(o, "selections")
        /\ \A n \in NodesOf(parsed, {"VariableDefinition"}) :
              \A o \in ObjectsOf(n) : HasKey(o, "type")

\* C5, amended: nothing written or returned for a node has a snake_case key;
\* after a successful serialization selection_set is under "selectionSet",
\* type_condition under "typeCondition", SelectionSet.items under "selections"
\* (an array, one entry per item) and VariableDefinition.var_type under
\* "varType", the camelCase form of its name: there is no key "type".
C5_CamelCaseKeys ==
    /\ \A n \in Nodes(parsed) : \A o \in ObjectsOf(n) : KeySet(o) \cap SnakeKeys = {}
    /\ Succeeded =>
        /\ \A n \in NodesOf(parsed, WithSelectionSet) :
              \A o \in ObjectsOf(n) : IsObj(Get(o, "selectionSet"))
        /\ \A n \in NodesOf(parsed, {"FragmentDefinition", "InlineFragment"}) :
              \A o \in ObjectsOf(n) : HasKey(o, "typeCondition")
        /\ \A n \in NodesOf(parsed, {"SelectionSet"}) : \A o \in ObjectsOf(n) :
              /\ IsArr(Get(o, "selections"))
              /\ Len(Items(Get(o, "selections"))) = Len(n[3].items)
        /\ \A n \in NodesOf(parsed, {"VariableDefinition"}) : \A o \in ObjectsOf(n) :
              /\ HasKey(o, "varType")
              /\ ~HasKey(o, "type")

C5_Witness ==
    /\ Succeeded
    /\ \E n \in NodesOf(parsed, {"VariableDefinition"}) :
          HasKey(ValueOf(n), "varType") /\ HasKey(WrittenOf(n), "varType")
    /\ \E n \in NodesOf(parsed, {"FragmentDefinition"}) :
          HasKey(ValueOf(n), "typeCondition") /\ HasKey(ValueOf(n), "selectionSet")
    /\ \E n \in NodesOf(parsed, {"SelectionSet"}) :
          Len(Items(Get(ValueOf(n), "selections"))) = 3

\* C6: for every TypeCondition On(n) the emitter receives exactly the entries
\* "kind": "NamedType" and "value": the Name object of n, in this order: what
\* has been written of the object at any point is a prefix of these (its
\* last value may be unfinished), a successful serialization has written
\* both, and the Value returned holds exactly these two, in this order.
C6_TypeConditionEntries ==
    \A n \in NodesOf(parsed, {"TypeCondition"}) :
        LET want == << <<"kind", JStr("NamedType")>>, <<"value", NameJson(n[3][2])>> >>
            got == Entries(WrittenOf(n)) IN
        /\ Succeeded => got = want /\ Entries(ValueOf(n)) = want
        /\ Len(got) <= 2
        /\ Keys(WrittenOf(n)) = SubSeq(<<"kind", "value">>, 1, Len(got))
        /\ Len(got) >= 1 => got[1][2] \in {want[1][2], Missing}
        /\ Len(got) = 2 => got[1] = want[1]

C6_Witness ==
    /\ Succeeded
    /\ \E n \in NodesOf(parsed, {"TypeCondition"}) :
          Len(n[2]) = 3 /\ Keys(WrittenOf(n)) = <<"kind", "value">>
    /\ \E n \in NodesOf(parsed, {"TypeCondition"}) :
          Len(n[2]) > 3 /\ Keys(ValueOf(n)) = <<"kind", "value">>

\* C9: serialization ends in success or in the emitter's own error, the one
\* of its first refused call; an emitter that refuses nothing gives success
\* and a Value.
C9_OnlyEmitterErrors ==
    Done =>
        /\ outcome.kind \in {"ok", "err"}
        /\ outcome.kind = "err" => emitter.failAt # 0 /\ outcome.err = emitter.err
        /\ emitter \in NeverFails => outcome.kind = "ok" /\ value # Missing

\* C10: after a successful serialization every InlineFragment object has the
\* key "typeCondition" and every VariableDefinition object the key
\* "defaultValue"; the key holds null exactly when the field is None, and the
\* objects' keys do not depend on the field being set.  So it is in what was
\* written and in the Value returned.
C10_OptionalNonNamesKept ==
    Succeeded =>
        /\ \A n \in NodesOf(parsed, {"InlineFragment"}) : \A o \in ObjectsOf(n) :
              /\ HasKey(o, "typeCondition")
              /\ (Get(o, "typeCondition") = JNull) <=> ~IsSome(n[3].type_condition)
        /\ \A n \in NodesOf(parsed, {"VariableDefinition"}) : \A o \in ObjectsOf(n) :
              /\ HasKey(o, "defaultValue")
              /\ (Get(o, "defaultValue") = JNull) <=> ~IsSome(n[3].default_value)
        /\ \A t \in {"InlineFragment", "VariableDefinition"} :
              \A n1, n2 \in NodesOf(parsed, {t}) :
                  /\ Keys(WrittenOf(n1)) = Keys(WrittenOf(n2))
                  /\ Keys(ValueOf(n1)) = Keys(ValueOf(n2))

C10_Witness ==
    /\ Succeeded
    /\ \E n1, n2 \in NodesOf(parsed, {"InlineFragment"}) :
          /\ ~IsSome(n1[3].type_condition) /\ Get(ValueOf(n1), "typeCondition") = JNull
          /\ IsSome(n2[3].type_condition) /\ IsObj(Get(ValueOf(n2), "typeCondition"))
    /\ \E n1, n2 \in NodesOf(parsed, {"VariableDefinition"}) :
          /\ ~IsSome(n1[3].default_value) /\ Get(ValueOf(n1), "defaultValue") = JNull
          /\ IsSome(n2[3].default_value) /\ IsObj(Get(ValueOf(n2), "defaultValue"))

\* C8: the Document that into_static returns denotes the tree it was given:
\* the same definitions in the same order with every field, positions and
\* spans included, unchanged, for as long as it is not dropped; and
\* serializing it makes the calls that serializing the given tree makes.
C8_IntoStaticKeepsTree ==
    lifetime = "static" =>
        /\ phase = "parsed" =>
              /\ View(document, heap) = parsed
              /\ Len(View(document, heap)) = Len(parsed)
        /\ Done => output = Run(SerializeDocument(parsed), emitter).out

C8_Witness ==
    /\ lifetime = "static"
    /\ phase = "parsed"
    /\ Len(parsed) = 2
    /\ parsed[1][1] = "Fragment" /\ parsed[1][2].position = P2
    /\ parsed[2][1] = "Operation" /\ parsed[2][2][1] = "Query"
    /\ View(document, heap)[2] = parsed[2]

----------------------------------------------------------------------------
(* Claims on Value::Object, under SpecObject *)

Perms(n) == {f \in [1..n -> 1..n] : \A i, j \in 1..n : f[i] = f[j] => i = j}
DistinctKeys(pairs) == \A i, j \in 1..Len(pairs) : pairs[i][1] = pairs[j][1] => i = j
LastInserted(pairs, k) ==
    pairs[CHOOSE i \in 1..Len(pairs) :
             pairs[i][1] = k /\ \A j \in 1..Len(pairs) : pairs[j][1] = k => j <= i][2]

\* where the object is written: the default value of the query's variable
DefaultValuePath ==
    <<K("definitions"), I(1), K("variableDefinitions"), I(1), K("defaultValue")>>

\* C7: whatever the insertion order, the object's keys are unique and in
\* ascending order, each key holds the value inserted last for it, objects
\* built from the same pairs in any other order are the same object, and the
\* entries are written, and held by the Value returned, in ascending key
\* order.
C7_ObjectKeyOrder ==
    /\ \A i, j \in 1..Len(object) : i < j => KeyRank(object[i][1]) < KeyRank(object[j][1])
    /\ {object[i][1] : i \in 1..Len(object)} = {inserted[i][1] : i \in 1..Len(inserted)}
    /\ \A i \in 1..Len(object) : object[i][2] = LastInserted(inserted, object[i][1])
    /\ DistinctKeys(inserted) =>
          \A f \in Perms(Len(inserted)) :
              BTreeFromInserts([i \in 1..Len(inserted) |-> inserted[f[i]]]) = object
    /\ Succeeded =>
          \A o \in {At(written, DefaultValuePath), At(value, DefaultValuePath)} :
              /\ IsObj(o)
              /\ KeySet(o) = {inserted[i][1] : i \in 1..Len(inserted)}
              /\ \A i, j \in 1..Len(Keys(o)) :
                    i < j => KeyRank(Keys(o)[i]) < KeyRank(Keys(o)[j])
              /\ \A i \in 1..Len(inserted) :
                    Get(o, inserted[i][1]) =
                        WrittenBy(SerializeValue(LastInserted(inserted, inserted[i][1])))

C7_Witness ==
    /\ Succeeded
    /\ inserted = << <<"b", V0>>, <<"a", Object(<<<<"a", V0>>>>)>> >>
    /\ Keys(At(written, DefaultValuePath)) = <<"a", "b">>
    /\ Keys(At(value, DefaultValuePath)) = <<"a", "b">>

====
